---- MODULE Spec2Model ----
(***************************************************************************)
(* State-machine model of cocotb's run orchestrator (cocotb/run.py) and    *)
(* of its bridge-library build matrix (cocotb/build_libs.py).              *)
(*                                                                         *)
(* The specifications below share one list of variables:                   *)
(*   SpecOutdated  Simulator.outdated applied to bounded file-system       *)
(*                 inputs (a pure function of the files' states);          *)
(*   Spec          run() / Icarus / Simulator.run / Simulator.execute;     *)
(*   SpecEnv       the same run, started from varied process environments; *)
(*   SpecLive      the same run, with the fairness its termination needs;  *)
(*   SpecBuild     build() of build_libs.py;                               *)
(*   SpecRename    _rename_safe applied twice;                             *)
(*   SpecCommand   Icarus.compile_command and Icarus.run_command applied   *)
(*                 to bounded configurations (pure functions of them).     *)
(* A specification leaves the variables of the others untouched.           *)
(***************************************************************************)
EXTENDS Integers, Sequences, FiniteSets, TLC

VARIABLES
    \* ---- Simulator.outdated called on its own (SpecOutdated)
    o_pc,           \* "call" before the call, "done" after it
    o_output,       \* state of the file named by `output`
    o_deps,         \* states of the files named by `dependencies`, in order
    o_result,       \* "none", or what the call produced
    \* ---- run(), Icarus, Simulator.run, Simulator.execute (Spec)
    pc,             \* "entry", "run", "execute", "report", "done"
    SIM,            \* the SIM variable of the process environment
    simulator,      \* TRUE when run() is given an adapter class (an Icarus)
    vhdl_sources,   \* TRUE when the list of VHDL sources is not empty
    force_compile,
    compile_only,
    sim_file,       \* state of the compiled artifact <sim_dir>/<toplevel>.vvp
    verilog_sources,\* states of the Verilog source files, in order
    os_environ,     \* os.environ when run() is called: the names set, their values
    aliased,        \* TRUE when the dict given as extra_env is os.environ itself
    extra_env,      \* <<>> for None, or <<the dict given as extra_env>>
    testcase,       \* <<>> for None, or <<the testcase>>
    seed,           \* <<>> for None, or <<the seed>>
    sim,            \* "unbound", or "Icarus" once the adapter is constructed
    cmds,           \* the queue build_command returned
    cmd_idx,        \* 0 before the queue exists, then the loop's position
    running,        \* "none", or the command whose process is running
    spawned,        \* the commands started so far, in order
    returncodes,    \* their exit codes, in order
    results_exists, \* whether the results document is on disk
    results_doc,    \* NoDoc, or the tree ET.parse read
    outcome,        \* "none", "returned", or the exception run() ended with
    failures,       \* the failure records the test-failure error carries
    sim_dir_exists, \* whether the directory sim_dir is on disk
    self_env,       \* self.env of the adapter
    results_xml_file, \* "" before Simulator.run resolves it, then the path
    handed,         \* the env= each started command was given, in order
    environ_now,    \* os.environ as it is now
    \* ---- build() of build_libs.py (SpecBuild)
    platform,       \* "linux", "darwin" or "win32" (sys.platform, os.name)
    on_path,        \* the marker executables find_executable finds
    abi_tag,        \* TRUE when the compiler's output name carries an ABI tag
    b_pc,           \* "idle", "build", "returned" or "raised"
    b_idx,          \* position in the steps of build()
    b_log,          \* the library builds attempted so far, in order
    disk,           \* the files under build_dir
    \* ---- _rename_safe called on its own, twice (SpecRename)
    r_pc,           \* "idle", then "start", "once", "twice"
    r_target,       \* the name given as target
    r_link,         \* the name given as link_name
    r_before,       \* the disk before the first call
    r_calls,        \* per call made: whether it raised, the disk it left
    \* ---- Icarus.compile_command / run_command on their own (SpecCommand)
    c_pc,           \* "idle", "call" before the calls, "done" after them
    defines,        \* the arguments of the constructor, as given
    includes,
    compile_args,
    simulation_args,
    extra_args,
    plus_args,
    source_paths,   \* verilog_sources as given: paths, relative or absolute
    c_compile,      \* what compile_command returned
    c_run           \* what run_command returned

outdatedVars == <<o_pc, o_output, o_deps, o_result>>

configVars == <<SIM, simulator, vhdl_sources, force_compile, compile_only,
                sim_file, verilog_sources, os_environ, aliased, extra_env,
                testcase, seed>>

runVars == <<pc, sim, cmds, cmd_idx, running, spawned, returncodes,
             results_exists, results_doc, outcome, failures,
             sim_dir_exists, self_env, results_xml_file, handed, environ_now>>

buildVars == <<platform, on_path, abi_tag, b_pc, b_idx, b_log, disk>>

renameVars == <<r_pc, r_target, r_link, r_before, r_calls>>

commandVars == <<c_pc, defines, includes, compile_args, simulation_args,
                 extra_args, plus_args, source_paths, c_compile, c_run>>

vars == <<outdatedVars, configVars, runVars, buildVars, renameVars, commandVars>>

(***************************************************************************)
(* Files.  os.path.isfile / os.path.getmtime see a file as absent, or as   *)
(* present with a modification time (seconds since the epoch, >= 0).       *)
(***************************************************************************)

\* Largest modification time of the model.
MaxMtime == 2

\* Longest dependency list handed to outdated on its own.
MaxDeps == 2

NoFile == [exists |-> FALSE, mtime |-> 0]

FileAt(t) == [exists |-> TRUE, mtime |-> t]

FileStates == {NoFile} \cup {FileAt(t) : t \in 0..MaxMtime}

SeqsUpTo(S, n) == UNION {[1..k -> S] : k \in 0..n}

(***************************************************************************)
(* Simulator.outdated (run.py 213-229).  The loop over the dependencies    *)
(* keeps the running maximum dep_mtime, which starts at 0;                 *)
(* os.path.getmtime raises OSError (FileNotFoundError) for a file that     *)
(* does not exist, which ends the call.                                    *)
(***************************************************************************)

\* run.py 220-224: the loop, from accumulator acc over the remaining files.
RECURSIVE dep_mtime_loop(_, _)
dep_mtime_loop(dependencies, acc) ==
    IF dependencies = <<>> THEN [raised |-> FALSE, dep_mtime |-> acc]
    ELSE LET file == Head(dependencies) IN
         IF ~file.exists THEN [raised |-> TRUE, dep_mtime |-> acc]
         ELSE dep_mtime_loop(Tail(dependencies),
                             IF file.mtime > acc THEN file.mtime ELSE acc)

\* A slip in the final comparison: >= where the code has >.
outdated_ge(output, dependencies) ==
    IF ~output.exists THEN "True"
    ELSE LET loop == dep_mtime_loop(dependencies, 0) IN
         IF loop.raised THEN "OSError"
         ELSE IF loop.dep_mtime >= output.mtime THEN "True" ELSE "False"

\* run.py 213-229: "True", "False", or "OSError" when getmtime raised.
outdated(output, dependencies) ==
    IF ~output.exists THEN "True"
    ELSE LET output_mtime == output.mtime
             loop == dep_mtime_loop(dependencies, 0) IN
         IF loop.raised THEN "OSError"
         ELSE IF loop.dep_mtime > output_mtime THEN "True" ELSE "False"

(***************************************************************************)
(* The results document.  ET.parse yields a tree; Element.iter(tag) yields *)
(* the element itself and its descendants, in document order, that carry   *)
(* the tag.  Nodes are numbered 1..n in document order (node 1 is the      *)
(* root), so the parent of node i+1 is node i or one of i's ancestors.     *)
(* A failure node's message and stdout attributes, and a testcase's        *)
(* classname and name attributes, are identified with the node's number.   *)
(***************************************************************************)

\* Most nodes of a results document.
MaxNodes == 4

Tags == {"testsuite", "testcase", "failure"}

NoDoc == [n |-> 0, tag |-> <<>>, parent |-> <<>>]

\* The ancestors of node i under parent function p (0 stands for "no parent").
RECURSIVE Ancestors(_, _)
Ancestors(p, i) == IF p[i] = 0 THEN {} ELSE {p[i]} \cup Ancestors(p, p[i])

InDocumentOrder(p, n) ==
    /\ p[1] = 0
    /\ \A i \in 2..n : p[i] \in {i - 1} \cup Ancestors(p, i - 1)

Docs ==
    UNION {
        {[n |-> n, tag |-> t, parent |-> p] :
            t \in [1..n -> Tags],
            p \in {q \in [1..n -> 0..(n - 1)] : InDocumentOrder(q, n)}}
        : n \in 1..MaxNodes}

\* What the file holds when it is not well-formed XML: ET.parse raises.
NotXml == [n |-> 0, tag |-> <<"not well-formed">>, parent |-> <<>>]

\* What ET.parse may find in the results file.
Contents == Docs \cup {NotXml}

\* Element.iter(tag) on node e: the nodes it yields; they come in ascending
\* order of their numbers.
iter(doc, e, tag) ==
    {m \in 1..doc.n :
        /\ doc.tag[m] = tag
        /\ (m = e \/ e \in Ancestors(doc.parent, m))}

Min(S) == CHOOSE x \in S : \A y \in S : x <= y

Max(S) == CHOOSE x \in S : \A y \in S : x >= y

\* A slip: the loops run to the end and the last failure found is raised.
first_failure_last(doc) ==
    LET suites == {ts \in iter(doc, 1, "testsuite") :
                      \E tc \in iter(doc, ts, "testcase") :
                          iter(doc, tc, "failure") # {}}
    IN  IF suites = {} THEN <<>>
        ELSE LET ts == Max(suites)
                 tc == Max({c \in iter(doc, ts, "testcase") :
                               iter(doc, c, "failure") # {}})
                 failure == Max(iter(doc, tc, "failure"))
             IN  <<[message |-> failure, classname |-> tc,
                    name |-> tc, stdout |-> failure]>>

\* A slip: only the root element's direct testcases are looked at.
first_failure_shallow(doc) ==
    LET cases == {tc \in 1..doc.n :
                     /\ doc.tag[1] = "testsuite"
                     /\ doc.tag[tc] = "testcase"
                     /\ doc.parent[tc] = 1
                     /\ iter(doc, tc, "failure") # {}}
    IN  IF cases = {} THEN <<>>
        ELSE LET tc == Min(cases)
                 failure == Min(iter(doc, tc, "failure"))
             IN  <<[message |-> failure, classname |-> tc,
                    name |-> tc, stdout |-> failure]>>

\* run.py 174-182: the three nested loops stop at the first assert False,
\* i.e. at the first testsuite (in document order) with a testcase that
\* holds a failure, its first such testcase, and that testcase's first
\* failure.  <<>> when the loops end without raising.
first_failure(doc) ==
    LET suites == {ts \in iter(doc, 1, "testsuite") :
                      \E tc \in iter(doc, ts, "testcase") :
                          iter(doc, tc, "failure") # {}}
    IN  IF suites = {} THEN <<>>
        ELSE LET ts == Min(suites)
                 tc == Min({c \in iter(doc, ts, "testcase") :
                               iter(doc, c, "failure") # {}})
                 failure == Min(iter(doc, tc, "failure"))
             IN  <<[message |-> failure, classname |-> tc,
                    name |-> tc, stdout |-> failure]>>

(***************************************************************************)
(* The process environment and the environment built for the commands.     *)
(* An environment is a function from the names that are set to strings.    *)
(***************************************************************************)

\* The configuration the runs of the model share.
toplevel == "dut"

module == "test_dut"

\* run.py 41: os.path.join(os.getcwd(), sim_build)
sim_dir == "/work/sim_build"

\* run.py 45: os.path.join(os.path.dirname(__file__), "libs")
lib_dir == "/site/cocotb/libs"

\* os.pathsep and os.path.sep
pathsep == ":"

sep == "/"

\* sys.path
sys_path == <<"/site">>

\* run.py 60-63: python_search
python_search == <<"/work/tests">>

\* get_config_var("prefix")
prefix == "/usr"

\* Largest seed of the model.
MaxSeed == 12

Digit(d) ==
    CASE d = 0 -> "0" [] d = 1 -> "1" [] d = 2 -> "2" [] d = 3 -> "3"
      [] d = 4 -> "4" [] d = 5 -> "5" [] d = 6 -> "6" [] d = 7 -> "7"
      [] d = 8 -> "8" [] d = 9 -> "9"

RECURSIVE str(_)
\* str(n) of an integer: its decimal digits.
str(n) ==
    IF n < 0 THEN "-" \o str(-n)
    ELSE IF n < 10 THEN Digit(n)
    ELSE str(n \div 10) \o Digit(n % 10)

RECURSIVE join(_, _)
\* glue.join(parts)
join(glue, parts) ==
    IF parts = <<>> THEN ""
    ELSE IF Len(parts) = 1 THEN parts[1]
    ELSE parts[1] \o glue \o join(glue, Tail(parts))

EmptyEnv == [k \in {} |-> ""]

\* env[k] = v
Put(env, k, v) == [x \in DOMAIN env \cup {k} |-> IF x = k THEN v ELSE env[x]]

\* for e in other: env[e] = other[e]
Update(env, other) ==
    [x \in DOMAIN env \cup DOMAIN other |->
        IF x \in DOMAIN other THEN other[x] ELSE env[x]]

\* A slip: self.env and os.environ taken for one object always.
environ_after_shared(alias, env, before) == env

\* run.py 111-112: self.env = extra_env binds the caller's dict, it does not
\* copy it; when that dict is os.environ, what is written to self.env is
\* written to os.environ.  os.environ after self.env has become env.
environ_after(alias, env, before) == IF alias THEN env ELSE before

\* run.py 111-120, Simulator.__init__: self.env.
init_env(extra, tc, sd) ==
    LET given == IF extra # <<>> THEN extra[1] ELSE EmptyEnv
        with_tc == IF tc # <<>> THEN Put(given, "TESTCASE", tc[1]) ELSE given
    IN  IF sd # <<>> THEN Put(with_tc, "RANDOM_SEED", str(sd[1])) ELSE with_tc

\* A slip: an empty value taken for an override.
getenv_true_if_set(environ, k) == k \in DOMAIN environ

\* run.py 152: the truth of os.getenv(k): set, and not the empty string.
getenv_true(environ, k) == k \in DOMAIN environ /\ environ[k] # ""

\* The random parts of the names NamedTemporaryFile may pick.
TempNames == {"tmpa1", "tmpb2"}

\* run.py 153-156: the name of NamedTemporaryFile(prefix=sim_dir + sep,
\* suffix="_results.xml"); an absolute prefix places it under sim_dir.
temp_name(random) == sim_dir \o sep \o random \o "_results.xml"

\* run.py 152-161: the results path, and self.env once it is resolved.
resolve_results(environ, env, random) ==
    IF ~getenv_true(environ, "COCOTB_RESULTS_FILE")
    THEN [path |-> temp_name(random),
          env |-> Put(env, "COCOTB_RESULTS_FILE", temp_name(random))]
    ELSE [path |-> environ["COCOTB_RESULTS_FILE"], env |-> env]

RECURSIVE append_paths(_, _)
\* run.py 132-133: PYTHONPATH += os.pathsep + path, for each path
append_paths(value, paths) ==
    IF paths = <<>> THEN value
    ELSE append_paths(value \o pathsep \o Head(paths), Tail(paths))

\* run.py 124-140, Simulator._set_env: self.env afterwards, or KeyError
\* when no PATH is set (self.env as the copy left it).
set_env(env, environ) ==
    LET copied == Update(env, environ) IN
        IF "PATH" \notin DOMAIN copied
        THEN [raised |-> TRUE, env |-> copied]
        ELSE LET searched == Put(copied, "PATH", copied["PATH"] \o pathsep \o lib_dir)
                 pythonpath == Put(searched, "PYTHONPATH",
                                   append_paths(join(pathsep, sys_path), python_search))
                 pythonhome == Put(pythonpath, "PYTHONHOME", prefix)
                 top == Put(pythonhome, "TOPLEVEL", toplevel)
                 cocotb_sim == Put(top, "COCOTB_SIM", "1")
             IN  [raised |-> FALSE, env |-> Put(cocotb_sim, "MODULE", module)]

\* The process environment of an ordinary shell.
PlainEnviron == [k \in {"PATH"} |-> "/usr/bin"]

\* The values the model lets the process environment hold for a name.
Inherited(k) ==
    CASE k = "PATH" -> {"/usr/bin"}
      [] k = "RANDOM_SEED" -> {"1"}
      [] k = "TESTCASE" -> {"inherited_test"}
      [] k = "TOPLEVEL" -> {"inherited_top"}
      [] k = "MODULE" -> {"inherited_module"}
      [] k = "COCOTB_SIM" -> {"0"}
      [] k = "COCOTB_RESULTS_FILE" -> {"", "/given/results.xml"}
      [] k = "EXTRA" -> {"inherited"}

\* The process environments a run starts from: PATH, alone or missing, or
\* with the names the run sets itself already set.
Environs ==
    {[k \in {} |-> ""]}
    \cup {PlainEnviron}
    \cup {Update(PlainEnviron, [k \in names |-> CHOOSE v \in Inherited(k) : TRUE]) :
            names \in {{"RANDOM_SEED"}, {"TESTCASE"}, {"RANDOM_SEED", "TESTCASE"},
                       {"TOPLEVEL", "MODULE", "COCOTB_SIM"}, {"EXTRA"}}}
    \cup {Put(PlainEnviron, "COCOTB_RESULTS_FILE", v) :
            v \in Inherited("COCOTB_RESULTS_FILE")}

\* The dicts a caller gives as extra_env.
ExtraEnvs ==
    {<<>>,
     <<[k \in {"EXTRA"} |-> "x"]>>,
     <<[k \in {"PATH", "TOPLEVEL"} |-> IF k = "PATH" THEN "/opt/bin" ELSE "extra_top"]>>}

(***************************************************************************)
(* run(), Icarus and Simulator.run.                                        *)
(***************************************************************************)

\* What the process environment may hold for SIM.
SimValues == {"unset", "icarus", "questa", "nosuchsim"}

\* run.py 295
supported_sim == {"icarus", "questa", "ius", "vcs", "ghdl", "aldec", "verilator"}

\* run.py 293: os.getenv("SIM", "icarus")
sim_env == IF SIM = "unset" THEN "icarus" ELSE SIM

\* The exit codes a command may end with.
ReturnCodes == {0, 1, 2}

\* The file states a run starts from: never compiled, up to date, as old as
\* its source, older than the second or the first of two sources, a source
\* missing alone or after a newer one, no sources.
FileScenarios ==
    { [sim_file |-> NoFile,    verilog_sources |-> <<FileAt(1)>>],
      [sim_file |-> FileAt(1), verilog_sources |-> <<FileAt(0)>>],
      [sim_file |-> FileAt(1), verilog_sources |-> <<FileAt(1)>>],
      [sim_file |-> FileAt(1), verilog_sources |-> <<FileAt(0), FileAt(2)>>],
      [sim_file |-> FileAt(1), verilog_sources |-> <<FileAt(2), FileAt(0)>>],
      [sim_file |-> FileAt(1), verilog_sources |-> <<NoFile>>],
      [sim_file |-> FileAt(1), verilog_sources |-> <<FileAt(2), NoFile>>],
      [sim_file |-> FileAt(1), verilog_sources |-> <<>>] }

\* A slip: the VHDL check left out of the constructor.
Icarus_init_no_check(vhdl) == "Icarus"

\* run.py 232-239, Icarus.__init__: "ValueError" or the adapter.
Icarus_init(vhdl) == IF vhdl THEN "ValueError" ELSE "Icarus"

\* A slip: force_compile ignored.
build_command_no_force(is_outdated, force, only) ==
    (IF is_outdated = "True" THEN <<"compile">> ELSE <<>>)
        \o (IF ~only THEN <<"run">> ELSE <<>>)

\* A slip: the run command queued in compile-only mode too.
build_command_always_run(is_outdated, force, only) ==
    (IF is_outdated = "True" \/ force THEN <<"compile">> ELSE <<>>)
        \o <<"run">>

\* A slip: the compile command queued twice.
build_command_compile_twice(is_outdated, force, only) ==
    (IF is_outdated = "True" \/ force THEN <<"compile", "compile">> ELSE <<>>)
        \o (IF ~only THEN <<"run">> ELSE <<>>)

\* run.py 277-288, Icarus.build_command, given what outdated returned
\* ("True" or "False"): the queue, commands named by what they are.
build_command(is_outdated, force, only) ==
    (IF is_outdated = "True" \/ force THEN <<"compile">> ELSE <<>>)
        \o (IF ~only THEN <<"run">> ELSE <<>>)

\* A slip: only negative exit codes taken as failures.
returncode_fails_negative(returncode) == returncode < 0

\* run.py 207: the test that ends execute with RuntimeError.
returncode_fails(returncode) == returncode # 0

\* A slip: the loop over cmds left before its last command.
after_cmd_skip_last(queue, i) == IF i >= Len(queue) THEN "report" ELSE "execute"

\* run.py 199: where the loop over cmds stands after position i.
after_cmd(queue, i) == IF i > Len(queue) THEN "report" ELSE "execute"

\* A slip: the existence of the results document checked before compile_only.
report_exists_first(only, exists, doc) ==
    IF ~exists
    THEN [outcome |-> "AssertionError: Simulation terminated abnormally",
          doc |-> NoDoc, failures |-> <<>>]
    ELSE IF only THEN [outcome |-> "returned", doc |-> NoDoc, failures |-> <<>>]
    ELSE IF doc = NotXml
    THEN [outcome |-> "ParseError", doc |-> NoDoc, failures |-> <<>>]
    ELSE IF first_failure(doc) # <<>>
         THEN [outcome |-> "AssertionError: test failure", doc |-> doc,
               failures |-> first_failure(doc)]
         ELSE [outcome |-> "returned", doc |-> doc, failures |-> <<>>]

\* A slip: a missing results document taken for a run without failures.
report_missing_passes(only, exists, doc) ==
    IF only \/ ~exists
    THEN [outcome |-> "returned", doc |-> NoDoc, failures |-> <<>>]
    ELSE IF doc = NotXml
    THEN [outcome |-> "ParseError", doc |-> NoDoc, failures |-> <<>>]
    ELSE IF first_failure(doc) # <<>>
         THEN [outcome |-> "AssertionError: test failure", doc |-> doc,
               failures |-> first_failure(doc)]
         ELSE [outcome |-> "returned", doc |-> doc, failures |-> <<>>]

\* run.py 167-185: the end of Simulator.run once execute has returned; doc
\* is what ET.parse finds in the file when it is called.
report(only, exists, doc) ==
    IF only THEN [outcome |-> "returned", doc |-> NoDoc, failures |-> <<>>]
    ELSE IF ~exists
    THEN [outcome |-> "AssertionError: Simulation terminated abnormally",
          doc |-> NoDoc, failures |-> <<>>]
    ELSE IF doc = NotXml
    THEN [outcome |-> "ParseError", doc |-> NoDoc, failures |-> <<>>]
    ELSE IF first_failure(doc) # <<>>
         THEN [outcome |-> "AssertionError: test failure", doc |-> doc,
               failures |-> first_failure(doc)]
         ELSE [outcome |-> "returned", doc |-> doc, failures |-> <<>>]

\* The run machine before run() is entered.
RunIdle ==
    /\ pc = "entry"
    /\ sim = "unbound"
    /\ cmds = <<>>
    /\ cmd_idx = 0
    /\ running = "none"
    /\ spawned = <<>>
    /\ returncodes = <<>>
    /\ results_exists = FALSE
    /\ results_doc = NoDoc
    /\ outcome = "none"
    /\ failures = <<>>
    /\ self_env = EmptyEnv
    /\ results_xml_file = ""
    /\ handed = <<>>

\* The process environment of the specifications that do not vary it.
EnvPlain ==
    /\ os_environ = PlainEnviron
    /\ environ_now = os_environ
    /\ aliased = FALSE
    /\ extra_env = <<>>
    /\ testcase = <<>>
    /\ seed = <<>>
    /\ sim_dir_exists = FALSE

BuildIdle ==
    /\ platform = "linux"
    /\ on_path = {}
    /\ abi_tag = FALSE
    /\ b_pc = "idle"
    /\ b_idx = 0
    /\ b_log = <<>>
    /\ disk = {}

CommandIdle ==
    /\ c_pc = "idle"
    /\ defines = <<>>
    /\ includes = <<>>
    /\ compile_args = <<>>
    /\ simulation_args = <<>>
    /\ extra_args = <<>>
    /\ plus_args = <<>>
    /\ source_paths = <<>>
    /\ c_compile = <<>>
    /\ c_run = <<>>

RenameIdle ==
    /\ r_pc = "idle"
    /\ r_target = [lib |-> "", abi |-> FALSE, ext |-> ""]
    /\ r_link = [lib |-> "", abi |-> FALSE, ext |-> ""]
    /\ r_before = {}
    /\ r_calls = <<>>

OutdatedIdle ==
    /\ o_pc = "idle"
    /\ o_output = NoFile
    /\ o_deps = <<>>
    /\ o_result = "none"

Init ==
    /\ SIM \in SimValues
    /\ simulator \in BOOLEAN
    /\ vhdl_sources \in BOOLEAN
    /\ force_compile \in BOOLEAN
    /\ compile_only \in BOOLEAN
    /\ \E f \in FileScenarios :
          /\ sim_file = f.sim_file
          /\ verilog_sources = f.verilog_sources
    /\ RunIdle
    /\ EnvPlain
    /\ OutdatedIdle
    /\ BuildIdle
    /\ RenameIdle
    /\ CommandIdle

Finish(o) ==
    /\ pc' = "done"
    /\ outcome' = o

\* run.py 291-301: the selector is refused.
RunRefused ==
    /\ pc = "entry"
    /\ ~(sim_env \in supported_sim \/ simulator)
    /\ Finish("NotImplementedError")
    /\ UNCHANGED <<sim, cmds, cmd_idx, running, spawned, returncodes,
                   results_exists, results_doc, failures>>
    /\ UNCHANGED <<sim_dir_exists, self_env, results_xml_file, handed, environ_now>>
    /\ UNCHANGED <<configVars, outdatedVars, buildVars, renameVars, commandVars>>

\* run.py 303-306 with Simulator.__init__ (16-122) and Icarus.__init__
\* (232-239): sim_dir is made, self.env is set up, and an Icarus is
\* constructed unless VHDL sources are given.
RunConstruct ==
    /\ pc = "entry"
    /\ sim_env \in supported_sim \/ simulator
    /\ simulator \/ sim_env = "icarus"
    /\ sim_dir_exists' = TRUE
    /\ environ_now' =
          environ_after(aliased, init_env(extra_env, testcase, seed), environ_now)
    /\ LET made == Icarus_init(vhdl_sources) IN
          IF made = "Icarus"
          THEN /\ sim' = "Icarus"
               /\ self_env' = init_env(extra_env, testcase, seed)
               /\ pc' = "run"
               /\ UNCHANGED outcome
          ELSE /\ Finish(made)
               /\ UNCHANGED <<sim, self_env>>
    /\ UNCHANGED <<cmds, cmd_idx, running, spawned, returncodes,
                   results_exists, results_doc, failures,
                   results_xml_file, handed>>
    /\ UNCHANGED <<configVars, outdatedVars, buildVars, renameVars, commandVars>>

\* run.py 303-320: the selector is accepted but no branch binds sim, so
\* sim.run() raises UnboundLocalError.
RunUnbound ==
    /\ pc = "entry"
    /\ sim_env \in supported_sim \/ simulator
    /\ ~(simulator \/ sim_env = "icarus")
    /\ Finish("UnboundLocalError")
    /\ UNCHANGED <<sim, cmds, cmd_idx, running, spawned, returncodes,
                   results_exists, results_doc, failures>>
    /\ UNCHANGED <<sim_dir_exists, self_env, results_xml_file, handed, environ_now>>
    /\ UNCHANGED <<configVars, outdatedVars, buildVars, renameVars, commandVars>>

\* run.py 148-165: Simulator.run up to the call of execute: the results
\* path is resolved, the queue is built (outdated may raise), _set_env
\* completes self.env (PATH may be missing) and makes sure of sim_dir, and
\* execute's loop is entered.
SimRunStart ==
    /\ pc = "run"
    /\ \E random \in TempNames :
          LET resolved == resolve_results(environ_now, self_env, random)
              is_outdated == outdated(sim_file, verilog_sources)
              set == set_env(resolved.env,
                             environ_after(aliased, resolved.env, environ_now))
          IN  /\ results_xml_file' = resolved.path
              /\ IF is_outdated = "OSError"
                 THEN /\ Finish("OSError")
                      /\ self_env' = resolved.env
                      /\ UNCHANGED <<cmds, cmd_idx, sim_dir_exists>>
                 ELSE IF set.raised
                 THEN /\ Finish("KeyError")
                      /\ self_env' = set.env
                      /\ UNCHANGED <<cmds, cmd_idx, sim_dir_exists>>
                 ELSE /\ self_env' = set.env
                      /\ sim_dir_exists' = TRUE
                      /\ cmds' = build_command(is_outdated, force_compile, compile_only)
                      /\ cmd_idx' = 1
                      /\ pc' = after_cmd(cmds', 1)
                      /\ UNCHANGED outcome
    /\ environ_now' = environ_after(aliased, self_env', environ_now)
    /\ UNCHANGED <<sim, running, spawned, returncodes,
                   results_exists, results_doc, failures, handed>>
    /\ UNCHANGED <<configVars, outdatedVars, buildVars, renameVars, commandVars>>

\* run.py 205: subprocess.run starts the next command of the queue and
\* gives it self.env.
ExecuteSpawn ==
    /\ pc = "execute"
    /\ running = "none"
    /\ running' = cmds[cmd_idx]
    /\ spawned' = Append(spawned, cmds[cmd_idx])
    /\ handed' = Append(handed, self_env)
    /\ UNCHANGED <<sim_dir_exists, self_env, results_xml_file, environ_now>>
    /\ UNCHANGED <<pc, sim, cmds, cmd_idx, returncodes,
                   results_exists, results_doc, outcome, failures>>
    /\ UNCHANGED <<configVars, outdatedVars, buildVars, renameVars, commandVars>>

\* run.py 205: subprocess.run cannot start the command (its executable is
\* not installed) and raises OSError, which ends execute and run.
ExecuteSpawnFails ==
    /\ pc = "execute"
    /\ running = "none"
    /\ Finish("OSError")
    /\ UNCHANGED <<sim, cmds, cmd_idx, running, spawned, returncodes,
                   results_exists, results_doc, failures>>
    /\ UNCHANGED <<sim_dir_exists, self_env, results_xml_file, handed, environ_now>>
    /\ UNCHANGED <<configVars, outdatedVars, buildVars, renameVars, commandVars>>

\* run.py 205-211: the process exits; the simulator run may have written the
\* results document.
ExecuteExit ==
    /\ pc = "execute"
    /\ running # "none"
    /\ \E returncode \in ReturnCodes :
          /\ returncodes' = Append(returncodes, returncode)
          /\ IF returncode_fails(returncode)
             THEN /\ Finish("RuntimeError")
                  /\ UNCHANGED cmd_idx
             ELSE /\ cmd_idx' = cmd_idx + 1
                  /\ pc' = after_cmd(cmds, cmd_idx + 1)
                  /\ UNCHANGED outcome
    /\ IF running = "run"
       THEN results_exists' \in BOOLEAN
       ELSE UNCHANGED results_exists
    /\ running' = "none"
    /\ UNCHANGED <<sim, cmds, spawned, results_doc, failures>>
    /\ UNCHANGED <<sim_dir_exists, self_env, results_xml_file, handed, environ_now>>
    /\ UNCHANGED <<configVars, outdatedVars, buildVars, renameVars, commandVars>>

\* run.py 167-185: the results are inspected and run returns or raises.
Report ==
    /\ pc = "report"
    /\ \E doc \in Contents :
          LET r == report(compile_only, results_exists, doc) IN
             /\ Finish(r.outcome)
             /\ results_doc' = r.doc
             /\ failures' = r.failures
    /\ UNCHANGED <<sim, cmds, cmd_idx, running, spawned, returncodes,
                   results_exists>>
    /\ UNCHANGED <<sim_dir_exists, self_env, results_xml_file, handed, environ_now>>
    /\ UNCHANGED <<configVars, outdatedVars, buildVars, renameVars, commandVars>>

Next ==
    \/ RunRefused
    \/ RunConstruct
    \/ RunUnbound
    \/ SimRunStart
    \/ ExecuteSpawn
    \/ ExecuteSpawnFails
    \/ ExecuteExit
    \/ Report

Spec == Init /\ [][Next]_vars

\* The same run when every started process exits in the end (subprocess.run
\* returns) and the interpreter goes on to its next statement.
Fairness ==
    /\ WF_vars(ExecuteExit)
    /\ WF_vars(RunRefused \/ RunConstruct \/ RunUnbound \/ SimRunStart
                  \/ ExecuteSpawn \/ ExecuteSpawnFails \/ Report)

SpecLive == Init /\ [][Next]_vars /\ Fairness

\* The same run, from varied process environments and environment-related
\* arguments; the sources are stale and a full run is asked for.
InitEnv ==
    /\ SIM \in {"unset", "questa", "nosuchsim"}
    /\ simulator = FALSE
    /\ vhdl_sources = FALSE
    /\ force_compile = FALSE
    /\ compile_only = FALSE
    /\ sim_file = NoFile
    /\ verilog_sources = <<FileAt(1)>>
    /\ os_environ \in Environs
    /\ environ_now = os_environ
    /\ aliased \in BOOLEAN
    /\ extra_env \in (IF aliased THEN {<<os_environ>>} ELSE ExtraEnvs)
    /\ testcase \in {<<>>, <<"test_a">>}
    /\ seed \in {<<>>, <<7>>, <<MaxSeed>>}
    /\ sim_dir_exists \in BOOLEAN
    /\ RunIdle
    /\ OutdatedIdle
    /\ BuildIdle
    /\ RenameIdle
    /\ CommandIdle

SpecEnv == InitEnv /\ [][Next]_vars

(***************************************************************************)
(* Simulator.outdated on its own.                                          *)
(***************************************************************************)

InitOutdated ==
    /\ o_pc = "call"
    /\ o_output \in FileStates
    /\ o_deps \in SeqsUpTo(FileStates, MaxDeps)
    /\ o_result = "none"
    /\ SIM = "unset"
    /\ simulator = FALSE
    /\ vhdl_sources = FALSE
    /\ force_compile = FALSE
    /\ compile_only = FALSE
    /\ sim_file = NoFile
    /\ verilog_sources = <<>>
    /\ RunIdle
    /\ EnvPlain
    /\ BuildIdle
    /\ RenameIdle
    /\ CommandIdle

CallOutdated ==
    /\ o_pc = "call"
    /\ o_result' = outdated(o_output, o_deps)
    /\ o_pc' = "done"
    /\ UNCHANGED <<o_output, o_deps, configVars, runVars, buildVars, renameVars, commandVars>>

NextOutdated == CallOutdated

SpecOutdated == InitOutdated /\ [][NextOutdated]_vars

(***************************************************************************)
(* build_libs.py.  A file name is a library name, an optional ABI tag and  *)
(* an extension ("libgpi.cpython-38-x86_64-linux-gnu.so" is libgpi with a  *)
(* tag and "so"); a disk entry is a name in a backend's build directory,   *)
(* a regular file or a symbolic link to another name of that directory.    *)
(***************************************************************************)

Platforms == {"linux", "darwin", "win32"}

Markers == {"iverilog", "vopt", "vsimsa"}

\* os.name
os_name(plat) == IF plat = "win32" THEN "nt" ELSE "posix"

FileName(lib, tagged, ext) == [lib |-> lib, abi |-> tagged, ext |-> ext]

NoName == FileName("", FALSE, "")

File(dir, name) == [dir |-> dir, name |-> name, kind |-> "file", target |-> NoName]

Link(dir, name, target) == [dir |-> dir, name |-> name, kind |-> "link", target |-> target]

Exists(d, dir, name) == \E e \in d : e.dir = dir /\ e.name = name

Remove(d, dir, name) == {e \in d : ~(e.dir = dir /\ e.name = name)}

\* A slip: the EEXIST branch of the symlink left out, so that an existing
\* link_name makes the call raise.
rename_safe_no_eexist(d, plat, dir, target, link_name) ==
    IF plat = "darwin"
    THEN IF Exists(d, dir, link_name) THEN [disk |-> d, raised |-> TRUE]
         ELSE [disk |-> d \cup {Link(dir, link_name, target)}, raised |-> FALSE]
    ELSE IF ~Exists(d, dir, target) THEN [disk |-> d, raised |-> TRUE]
    ELSE IF os_name(plat) = "nt"
    THEN [disk |-> Remove(d, dir, link_name) \cup {File(dir, link_name)},
          raised |-> FALSE]
    ELSE [disk |-> Remove(Remove(d, dir, target), dir, link_name)
                      \cup {File(dir, link_name)},
          raised |-> FALSE]

\* build_libs.py 46-73, _rename_safe(target, link_name), both in directory
\* dir: the disk afterwards and whether the call raised.  os.symlink does
\* not need its target; shutil.copy2 and os.rename raise when it is absent;
\* os.rename replaces an existing link_name.
rename_safe(d, plat, dir, target, link_name) ==
    IF plat = "darwin"
    THEN [disk |-> Remove(d, dir, link_name) \cup {Link(dir, link_name, target)},
          raised |-> FALSE]
    ELSE IF ~Exists(d, dir, target) THEN [disk |-> d, raised |-> TRUE]
    ELSE IF os_name(plat) = "nt"
    THEN [disk |-> Remove(d, dir, link_name) \cup {File(dir, link_name)},
          raised |-> FALSE]
    ELSE [disk |-> Remove(Remove(d, dir, target), dir, link_name)
                      \cup {File(dir, link_name)},
          raised |-> FALSE]

\* The name build_ext gives its output (get_outputs()[0]).
out_lib(plat, tagged, lib) ==
    FileName(lib, tagged, IF plat = "win32" THEN "pyd" ELSE "so")

\* build_libs.py 93-95: the extension of the canonical name.
ext_name(plat, lib_path) == IF os_name(plat) = "nt" THEN "dll" ELSE lib_path.ext

\* A slip: the compiler's output left under the name it was given.
build_lib_no_rename(d, plat, tagged, dir, lib) ==
    [disk |-> Remove(d, dir, out_lib(plat, tagged, lib))
                 \cup {File(dir, out_lib(plat, tagged, lib))},
     raised |-> FALSE]

\* build_libs.py 76-103, _build_lib once the compiler has succeeded: the
\* output is written, then renamed when its name is not the canonical one.
build_lib(d, plat, tagged, dir, lib) ==
    LET lib_path == out_lib(plat, tagged, lib)
        written == Remove(d, dir, lib_path) \cup {File(dir, lib_path)}
        target == FileName(lib, FALSE, ext_name(plat, lib_path))
    IN  IF target # lib_path
        THEN rename_safe(written, plat, dir, lib_path, target)
        ELSE [disk |-> written, raised |-> FALSE]

\* build_libs.py 113-207, build_common_libs: the libraries in build order.
common_libs == <<"libcocotbutils", "libgpilog", "libcocotb", "libgpi", "simulator">>

\* The libraries= list of each Extension, as the file names the linker
\* resolves them to ("gpi" is libgpi); the system libraries (python,
\* pthread, m, stdc++) and the simulator's own (vpi, mtipli, aldecpli) are
\* not built here and are left out.
libraries(lib) ==
    CASE lib = "libcocotbutils" -> {}
      [] lib = "libgpilog" -> {"libcocotbutils"}
      [] lib = "libcocotb" -> {"libgpilog", "libcocotbutils"}
      [] lib = "libgpi" -> {"libcocotbutils", "libgpilog", "libcocotb"}
      [] lib = "simulator" -> {"libcocotbutils", "libgpilog", "libgpi"}
      [] lib = "libvpi" -> {"libgpi", "libgpilog"}
      [] lib = "libcocotbvhpi" -> {"libgpi", "libgpilog"}
      [] lib = "libfli" -> {"libgpi", "libgpilog"}

Step(dir, op, lib) == [dir |-> dir, op |-> op, lib |-> lib]

Builds(dir, libs) == [i \in 1..Len(libs) |-> Step(dir, "build", libs[i])]

\* A slip: the probe's answer ignored for Aldec.
aldec_compile_always(found) == TRUE

\* build_libs.py 287-296: icarus_compile.
icarus_compile(plat, found) == ~(os_name(plat) = "nt" /\ "iverilog" \notin found)

\* A slip: the Modelsim common chain never built.
modelsim_compile_never(plat, found) == FALSE

\* build_libs.py 325-334: modelsim_compile.
modelsim_compile(plat, found) == ~(os_name(plat) = "nt" /\ "vopt" \notin found)

\* build_libs.py 353-357: the FLI bridge is built when vopt was found.
fli_compile(found) == "vopt" \in found

\* build_libs.py 441-446: Aldec is built when vsimsa was found.
aldec_compile(found) == "vsimsa" \in found

\* build_libs.py 285-490, build(): the steps in program order.
build_steps(plat, found) ==
    (IF icarus_compile(plat, found)
        THEN Builds("icarus", common_libs \o <<"libvpi">>)
                \o <<Step("icarus", "rename", "libvpi")>>
        ELSE <<>>)
    \o (IF modelsim_compile(plat, found)
        THEN Builds("modelsi", common_libs \o <<"libvpi">>) ELSE <<>>)
    \o (IF fli_compile(found) THEN Builds("modelsi", <<"libfli">>) ELSE <<>>)
    \o (IF os_name(plat) = "posix"
        THEN Builds("ghdl", common_libs \o <<"libvpi">>) ELSE <<>>)
    \o (IF os_name(plat) = "posix"
        THEN Builds("ius", common_libs \o <<"libvpi", "libcocotbvhpi">>) ELSE <<>>)
    \o (IF os_name(plat) = "posix"
        THEN Builds("vcs", common_libs \o <<"libvpi">>) ELSE <<>>)
    \o (IF aldec_compile(found)
        THEN Builds("aldec", common_libs \o <<"libvpi", "libcocotbvhpi">>) ELSE <<>>)
    \o (IF os_name(plat) = "posix"
        THEN Builds("verilator", common_libs \o <<"libvpi">>) ELSE <<>>)

\* A slip: no failed library build absorbed.
absorbed_never(step) == FALSE

\* A slip: every failed library build absorbed.
absorbed_always(step) == TRUE

\* build_libs.py 372-377: the one library build wrapped in try/except.
absorbed(step) == step.lib = "libfli"

InitBuild ==
    /\ platform \in Platforms
    /\ on_path \in SUBSET Markers
    /\ abi_tag \in BOOLEAN
    /\ b_pc = "build"
    /\ b_idx = 1
    /\ b_log = <<>>
    /\ disk = {}
    /\ SIM = "unset"
    /\ simulator = FALSE
    /\ vhdl_sources = FALSE
    /\ force_compile = FALSE
    /\ compile_only = FALSE
    /\ sim_file = NoFile
    /\ verilog_sources = <<>>
    /\ RunIdle
    /\ EnvPlain
    /\ OutdatedIdle
    /\ RenameIdle
    /\ CommandIdle

CurrentStep == build_steps(platform, on_path)[b_idx]

\* One _build_lib call of build(): the compiler succeeds or fails; a failure
\* raises out of build() unless the call is the one inside try/except.
BuildLib ==
    /\ b_pc = "build"
    /\ b_idx <= Len(build_steps(platform, on_path))
    /\ CurrentStep.op = "build"
    /\ \E ok \in BOOLEAN :
          LET done == build_lib(disk, platform, abi_tag, CurrentStep.dir, CurrentStep.lib)
              fine == ok /\ ~done.raised
          IN  /\ b_log' = Append(b_log, [dir |-> CurrentStep.dir,
                                         lib |-> CurrentStep.lib, ok |-> fine])
              /\ disk' = IF fine THEN done.disk ELSE disk
              /\ IF fine \/ absorbed(CurrentStep)
                 THEN /\ b_idx' = b_idx + 1
                      /\ UNCHANGED b_pc
                 ELSE /\ b_pc' = "raised"
                      /\ UNCHANGED b_idx
    /\ UNCHANGED <<platform, on_path, abi_tag>>
    /\ UNCHANGED <<configVars, runVars, outdatedVars, renameVars, commandVars>>

\* build_libs.py 314-317: the Icarus VPI library renamed to gpivpi.vpl.
RenameVpl ==
    /\ b_pc = "build"
    /\ b_idx <= Len(build_steps(platform, on_path))
    /\ CurrentStep.op = "rename"
    /\ LET lib_path == out_lib(platform, abi_tag, CurrentStep.lib)
           icarus_vpi_lib_name ==
               FileName(CurrentStep.lib, FALSE, ext_name(platform, lib_path))
           done == rename_safe(disk, platform, CurrentStep.dir,
                               icarus_vpi_lib_name,
                               FileName("gpivpi", FALSE, "vpl"))
       IN  /\ disk' = done.disk
           /\ IF done.raised
              THEN /\ b_pc' = "raised"
                   /\ UNCHANGED b_idx
              ELSE /\ b_idx' = b_idx + 1
                   /\ UNCHANGED b_pc
    /\ UNCHANGED <<platform, on_path, abi_tag, b_log>>
    /\ UNCHANGED <<configVars, runVars, outdatedVars, renameVars, commandVars>>

\* build_libs.py 492: build() returns.
BuildReturn ==
    /\ b_pc = "build"
    /\ b_idx > Len(build_steps(platform, on_path))
    /\ b_pc' = "returned"
    /\ UNCHANGED <<platform, on_path, abi_tag, b_idx, b_log, disk>>
    /\ UNCHANGED <<configVars, runVars, outdatedVars, renameVars, commandVars>>

NextBuild == BuildLib \/ RenameVpl \/ BuildReturn

SpecBuild == InitBuild /\ [][NextBuild]_vars

(***************************************************************************)
(* Where build() puts the libraries and where vvp looks for its module.    *)
(***************************************************************************)

\* setup.py 58-64: build(build_dir=lib_dir), the libs directory of the
\* package, the one run.py 45 names.
build_dir == "/site/cocotb/libs"

\* build_libs.py 285, 322, ...: os.path.join(build_dir, "<backend>")
backend_build_dir(dir) == build_dir \o "/" \o dir

\* The text of a file name.
name_text(name) ==
    name.lib \o (IF name.abi THEN ".cpython-37m" ELSE "") \o "." \o name.ext

\* run.py 271: vvp -M <dir> -m <module> loads <dir>/<module>.vpi, or
\* <dir>/<module>.vpl when there is no .vpi.
vvp_module_files(dir, mod) ==
    {[dir |-> dir, text |-> mod \o ".vpi"], [dir |-> dir, text |-> mod \o ".vpl"]}

\* The files of the disk as directory and name text.
disk_files(d) == {[dir |-> backend_build_dir(e.dir), text |-> name_text(e.name)] : e \in d}

(***************************************************************************)
(* _rename_safe on its own: called twice in succession with the same       *)
(* arguments, from the disk states its callers can leave it: the target    *)
(* written by the compiler or absent, link_name absent, a file, or a link  *)
(* to the target.                                                          *)
(***************************************************************************)

all_libs == common_libs \o <<"libvpi", "libcocotbvhpi", "libfli">>

\* The (target, link_name) pairs build_libs.py calls _rename_safe with:
\* line 99 in _build_lib, line 314 in build().
rename_pairs(plat) ==
    {[target |-> out_lib(plat, tagged, all_libs[i]),
      link_name |-> FileName(all_libs[i], FALSE,
                             ext_name(plat, out_lib(plat, tagged, all_libs[i])))] :
        tagged \in BOOLEAN, i \in 1..Len(all_libs)}
    \cup {[target |-> FileName("libvpi", FALSE,
                               ext_name(plat, out_lib(plat, FALSE, "libvpi"))),
           link_name |-> FileName("gpivpi", FALSE, "vpl")]}

InitRename ==
    /\ platform \in Platforms
    /\ \E pair \in rename_pairs(platform) :
          /\ pair.target # pair.link_name
          /\ r_target = pair.target
          /\ r_link = pair.link_name
    /\ \E t \in SUBSET {File("icarus", r_target)} :
       \E l \in {{}, {File("icarus", r_link)}, {Link("icarus", r_link, r_target)}} :
          disk = t \cup l
    /\ r_before = disk
    /\ r_pc = "start"
    /\ r_calls = <<>>
    /\ on_path = {}
    /\ abi_tag = FALSE
    /\ b_pc = "idle"
    /\ b_idx = 0
    /\ b_log = <<>>
    /\ SIM = "unset"
    /\ simulator = FALSE
    /\ vhdl_sources = FALSE
    /\ force_compile = FALSE
    /\ compile_only = FALSE
    /\ sim_file = NoFile
    /\ verilog_sources = <<>>
    /\ RunIdle
    /\ EnvPlain
    /\ OutdatedIdle
    /\ CommandIdle

\* One call _rename_safe(target, link_name).
CallRename ==
    /\ r_pc \in {"start", "once"}
    /\ LET done == rename_safe(disk, platform, "icarus", r_target, r_link) IN
          /\ disk' = done.disk
          /\ r_calls' = Append(r_calls, [raised |-> done.raised, disk |-> done.disk])
    /\ r_pc' = IF r_pc = "start" THEN "once" ELSE "twice"
    /\ UNCHANGED <<r_target, r_link, r_before>>
    /\ UNCHANGED <<platform, on_path, abi_tag, b_pc, b_idx, b_log>>
    /\ UNCHANGED <<configVars, runVars, outdatedVars, commandVars>>

NextRename == CallRename

SpecRename == InitRename /\ [][NextRename]_vars

(***************************************************************************)
(* The command lines of the Icarus adapter.  A path is given as a record:  *)
(* whether it is absolute, and its text.                                   *)
(***************************************************************************)

\* Longest list of defines, includes, sources or plus-args of the model.
MaxArgs == 2

\* os.getcwd()
cwd == "/work"

Path(isabs, text) == [isabs |-> isabs, text |-> text]

\* A slip: relative paths left as given.
abspath_as_given(p) == p.text

\* run.py 187-193: what get_abs_paths makes of one path.
abspath(p) == IF p.isabs THEN p.text ELSE cwd \o sep \o p.text

\* run.py 186-195: get_abs_paths
get_abs_paths(paths) == [i \in 1..Len(paths) |-> abspath(paths[i])]

\* run.py 239: self.sim_file, the path of the compiled artifact
sim_file_path == sim_dir \o sep \o toplevel \o ".vvp"

RECURSIVE get_include_commands(_)
\* run.py 241-247
get_include_commands(dirs) ==
    IF dirs = <<>> THEN <<>>
    ELSE <<"-I", Head(dirs)>> \o get_include_commands(Tail(dirs))

RECURSIVE get_define_commands_reversed(_)
\* A slip: the defines taken last to first.
get_define_commands_reversed(defs) ==
    IF defs = <<>> THEN <<>>
    ELSE get_define_commands_reversed(Tail(defs)) \o <<"-D", Head(defs)>>

RECURSIVE get_define_commands(_)
\* run.py 249-255
get_define_commands(defs) ==
    IF defs = <<>> THEN <<>>
    ELSE <<"-D", Head(defs)>> \o get_define_commands(Tail(defs))

\* run.py 80-99, Simulator.__init__: the attributes the commands read.
Config(defs, incs, cargs, sargs, xargs, pargs, srcs) ==
    [defines |-> defs,
     includes |-> get_abs_paths(incs),
     compile_args |-> cargs \o xargs,
     simulation_args |-> sargs \o xargs,
     plus_args |-> pargs,
     verilog_sources |-> get_abs_paths(srcs)]

\* run.py 257-267, Icarus.compile_command
compile_command(self) ==
    <<"iverilog", "-o", sim_file_path, "-s", toplevel, "-g2012">>
        \o get_define_commands(self.defines)
        \o get_include_commands(self.includes)
        \o self.compile_args
        \o self.verilog_sources

\* A slip: the plus-args put before the compiled artifact.
run_command_plus_first(self) ==
    <<"vvp", "-M", lib_dir, "-m", "libcocotbvpi_icarus">>
        \o self.simulation_args
        \o self.plus_args
        \o <<sim_file_path>>

\* run.py 269-275, Icarus.run_command
run_command(self) ==
    <<"vvp", "-M", lib_dir, "-m", "libcocotbvpi_icarus">>
        \o self.simulation_args
        \o <<sim_file_path>>
        \o self.plus_args

DefineTexts == {"DEBUG", "WIDTH=8"}

PathsGiven == {Path(FALSE, "rtl/dut.v"), Path(TRUE, "/lib/cells.v")}

DirsGiven == {Path(FALSE, "inc"), Path(TRUE, "/lib/inc")}

PlusArgs == {"+trace", "+seed=1"}

InitCommand ==
    /\ c_pc = "call"
    /\ defines \in SeqsUpTo(DefineTexts, MaxArgs)
    /\ includes \in SeqsUpTo(DirsGiven, MaxArgs)
    /\ source_paths \in SeqsUpTo(PathsGiven, MaxArgs)
    /\ plus_args \in SeqsUpTo(PlusArgs, MaxArgs)
    /\ compile_args \in {<<>>, <<"-Wall">>}
    /\ simulation_args \in {<<>>, <<"-n">>}
    /\ extra_args \in {<<>>, <<"-v">>}
    /\ c_compile = <<>>
    /\ c_run = <<>>
    /\ SIM = "unset"
    /\ simulator = FALSE
    /\ vhdl_sources = FALSE
    /\ force_compile = FALSE
    /\ compile_only = FALSE
    /\ sim_file = NoFile
    /\ verilog_sources = <<>>
    /\ RunIdle
    /\ EnvPlain
    /\ OutdatedIdle
    /\ BuildIdle
    /\ RenameIdle

\* The adapter is constructed and both commands are asked of it.
CallCommands ==
    /\ c_pc = "call"
    /\ LET self == Config(defines, includes, compile_args, simulation_args,
                          extra_args, plus_args, source_paths)
       IN  /\ c_compile' = compile_command(self)
           /\ c_run' = run_command(self)
    /\ c_pc' = "done"
    /\ UNCHANGED <<defines, includes, compile_args, simulation_args,
                   extra_args, plus_args, source_paths>>
    /\ UNCHANGED <<configVars, runVars, outdatedVars, buildVars, renameVars>>

NextCommand == CallCommands

SpecCommand == InitCommand /\ [][NextCommand]_vars

(***************************************************************************)
(* Staleness as the specification words it, stated on the files alone.     *)
(***************************************************************************)

SomeDepNewer(output, deps) ==
    \E i \in 1..Len(deps) : deps[i].exists /\ deps[i].mtime > output.mtime

AllDepsExist(deps) == \A i \in 1..Len(deps) : deps[i].exists

\* C3 (as claimed): outdated returns true when the output does not exist,
\* true when some dependency is strictly newer than the output, and false
\* in every other case.
C3_AsClaimed ==
    o_pc = "done" =>
        /\ ~o_output.exists => o_result = "True"
        /\ (o_output.exists /\ SomeDepNewer(o_output, o_deps)) => o_result = "True"
        /\ (o_output.exists /\ ~SomeDepNewer(o_output, o_deps)) => o_result = "False"

\* C3 (amended): outdated returns true when the output does not exist; when
\* the output exists and some dependency file does not, it raises instead of
\* returning; when the output and every dependency exist it returns true if
\* some dependency is strictly newer than the output and false otherwise
\* (equal times and the empty list included).
C3_Outdated ==
    o_pc = "done" =>
        /\ ~o_output.exists => o_result = "True"
        /\ (o_output.exists /\ ~AllDepsExist(o_deps)) => o_result = "OSError"
        /\ (o_output.exists /\ AllDepsExist(o_deps)
              /\ SomeDepNewer(o_output, o_deps)) => o_result = "True"
        /\ (o_output.exists /\ AllDepsExist(o_deps)
              /\ ~SomeDepNewer(o_output, o_deps)) => o_result = "False"

\* C3 witness: the boundary case, the newest dependency as old as the output.
C3_Witness ==
    /\ o_pc = "done"
    /\ o_output.exists
    /\ o_deps # <<>>
    /\ AllDepsExist(o_deps)
    /\ \E i \in 1..Len(o_deps) : o_deps[i].mtime = o_output.mtime
    /\ ~SomeDepNewer(o_output, o_deps)
    /\ o_result = "False"

(***************************************************************************)
(* Properties of run(), Icarus, Simulator.run and Simulator.execute.       *)
(***************************************************************************)

Range(q) == {q[i] : i \in 1..Len(q)}

\* A build output is stale when it is missing or older than one of its
\* dependencies.
Stale(output, deps) == ~output.exists \/ SomeDepNewer(output, deps)

\* execute has run the whole queue and every command exited with code 0.
AllExitedZero ==
    /\ cmd_idx > 0
    /\ Len(returncodes) = Len(cmds)
    /\ \A i \in 1..Len(returncodes) : returncodes[i] = 0

\* The failure nodes under a testcase of a testsuite.
FailureNodes(doc) ==
    {f \in 1..doc.n :
        /\ doc.tag[f] = "failure"
        /\ \E tc \in Ancestors(doc.parent, f) :
              /\ doc.tag[tc] = "testcase"
              /\ \E ts \in Ancestors(doc.parent, tc) : doc.tag[ts] = "testsuite"}

\* C1: execute starts the commands in queue order, and the first command
\* that exits non-zero ends it with RuntimeError: it is the last command
\* ever started; for the queue [compile, run], the run command is not
\* started after a failed compile.
C1_FirstFailureAborts ==
    /\ Len(spawned) <= Len(cmds)
    /\ \A i \in 1..Len(spawned) : spawned[i] = cmds[i]
    /\ Len(returncodes) <= Len(spawned)
    /\ \A i \in 1..Len(returncodes) :
          returncodes[i] # 0 =>
              /\ Len(spawned) = i
              /\ running = "none"
              /\ pc = "done"
              /\ outcome = "RuntimeError"
    /\ (cmds = <<"compile", "run">> /\ returncodes # <<>> /\ returncodes[1] # 0)
          => "run" \notin Range(spawned)

\* C1 witness: the queue [compile, run] whose compile exited with code 2.
C1_Witness ==
    /\ cmds = <<"compile", "run">>
    /\ returncodes = <<2>>
    /\ spawned = <<"compile">>
    /\ outcome = "RuntimeError"

\* C2: the queue build_command returns holds the compile command exactly
\* when the artifact is stale with respect to the Verilog sources or
\* force_compile is set; with force_compile false, an up-to-date artifact
\* and compile_only false the queue is exactly [run].
C2_CompileIffStale ==
    cmd_idx > 0 =>
        /\ "compile" \in Range(cmds)
              <=> (Stale(sim_file, verilog_sources) \/ force_compile)
        /\ (~force_compile /\ ~Stale(sim_file, verilog_sources) /\ ~compile_only)
              => cmds = <<"run">>

\* C2 witness: an existing artifact as new as its source, nothing forced.
C2_Witness ==
    /\ cmd_idx > 0
    /\ ~force_compile
    /\ ~compile_only
    /\ sim_file.exists
    /\ verilog_sources # <<>>
    /\ ~Stale(sim_file, verilog_sources)
    /\ cmds = <<"run">>

\* C4: VHDL sources given to the Icarus adapter make its construction fail
\* with ValueError, and no command is ever started.
C4_VhdlRejected ==
    (pc # "entry" /\ vhdl_sources /\ (simulator \/ sim_env = "icarus")) =>
        /\ pc = "done"
        /\ outcome = "ValueError"
        /\ sim = "unbound"
        /\ cmds = <<>>
        /\ spawned = <<>>
        /\ running = "none"

\* C4 witness: run() ended by the constructor's ValueError.
C4_Witness ==
    /\ vhdl_sources
    /\ pc = "done"
    /\ outcome = "ValueError"

\* C5: not compile-only, every command exited 0 and the results document is
\* missing: Simulator.run ends with 'Simulation terminated abnormally', not
\* with a test failure and not with a pass.
C5_AbnormalTermination ==
    (pc = "done" /\ ~compile_only /\ AllExitedZero /\ ~results_exists) =>
        /\ outcome = "AssertionError: Simulation terminated abnormally"
        /\ failures = <<>>
        /\ results_doc = NoDoc

\* C5 witness: the simulator exited 0 without writing the document.
C5_Witness ==
    /\ pc = "done"
    /\ ~compile_only
    /\ AllExitedZero
    /\ "run" \in Range(spawned)
    /\ ~results_exists
    /\ outcome = "AssertionError: Simulation terminated abnormally"

\* C6: not compile-only, every command exited 0 and the results document
\* exists (a well-formed document, which ET.parse read): Simulator.run
\* returns exactly when no failure node lies under a testcase of a
\* testsuite, and otherwise raises the test-failure assertion with the
\* message of one of those failure nodes.
C6_PassIffNoFailure ==
    (pc = "done" /\ ~compile_only /\ AllExitedZero /\ results_exists
        /\ outcome # "ParseError") =>
        /\ results_doc \in Docs
        /\ outcome = "returned" <=> FailureNodes(results_doc) = {}
        /\ outcome = "AssertionError: test failure"
              <=> FailureNodes(results_doc) # {}
        /\ FailureNodes(results_doc) # {} =>
              /\ failures # <<>>
              /\ failures[1].message \in FailureNodes(results_doc)

\* C6 witness: one testsuite with two testcases, the second with a failure.
C6_Witness ==
    /\ pc = "done"
    /\ results_doc.n = 4
    /\ results_doc.tag = <<"testsuite", "testcase", "testcase", "failure">>
    /\ results_doc.parent = <<0, 1, 1, 3>>
    /\ outcome = "AssertionError: test failure"
    /\ failures[1].message = 4

\* C7 (as claimed): the test-failure error carries one record per failure
\* node of the document.
C7_AsClaimed ==
    outcome = "AssertionError: test failure" =>
        {failures[i].message : i \in 1..Len(failures)} = FailureNodes(results_doc)

\* C7 (amended): the test-failure error carries exactly one record, that of
\* the first failure node in document order (among those under a testcase
\* of a testsuite), with the class name and test name of a testcase that
\* holds it, its message and its captured output.
C7_FirstFailureOnly ==
    outcome = "AssertionError: test failure" =>
        /\ Len(failures) = 1
        /\ failures[1].message = Min(FailureNodes(results_doc))
        /\ failures[1].stdout = failures[1].message
        /\ failures[1].classname \in Ancestors(results_doc.parent, failures[1].message)
        /\ results_doc.tag[failures[1].classname] = "testcase"
        /\ failures[1].name = failures[1].classname

\* C7 witness: a test-failure error raised on a document with two failures.
C7_Witness ==
    /\ outcome = "AssertionError: test failure"
    /\ Cardinality(FailureNodes(results_doc)) >= 2
    /\ Len(failures) = 1

\* C8: in compile-only mode the run command is never queued or started, and
\* once the queue has run Simulator.run returns without the results
\* document being looked for or parsed, stale or not, forced or not.
C8_CompileOnly ==
    compile_only =>
        /\ "run" \notin Range(cmds)
        /\ "run" \notin Range(spawned)
        /\ running # "run"
        /\ (pc = "done" /\ AllExitedZero) =>
              /\ outcome = "returned"
              /\ results_doc = NoDoc
              /\ failures = <<>>

\* C8 witness: a compile-only run that compiled and returned although no
\* results document exists.
C8_Witness ==
    /\ compile_only
    /\ pc = "done"
    /\ spawned = <<"compile">>
    /\ returncodes = <<0>>
    /\ ~results_exists
    /\ outcome = "returned"

(***************************************************************************)
(* Properties of build().                                                  *)
(***************************************************************************)

\* The backend directories build() works in on this host.
Enabled(plat, found) ==
    {build_steps(plat, found)[i].dir : i \in 1..Len(build_steps(plat, found))}

Attempted == {b_log[i].dir : i \in 1..Len(b_log)}

Artifacts(dir) == {e \in disk : e.dir = dir}

\* The directories of the backends that come after dir in build().
BackendOrder == <<"icarus", "modelsi", "ghdl", "ius", "vcs", "aldec", "verilator">>

After(dir) ==
    {BackendOrder[j] : j \in {k \in 1..Len(BackendOrder) :
        \E i \in 1..(k - 1) : BackendOrder[i] = dir}}

\* C9 (as claimed): a failed library build of one backend does not keep the
\* backends after it from being attempted.
C9_AsClaimed ==
    b_pc \in {"returned", "raised"} =>
        \A i \in 1..Len(b_log) :
            ~b_log[i].ok =>
                (After(b_log[i].dir) \cap Enabled(platform, on_path)) \subseteq Attempted

\* C9 (amended): a failed library build raises out of build() at once, so
\* that nothing after it is attempted, unless it is the build of the
\* Modelsim/Questa FLI bridge: that failure alone is absorbed and the
\* backends after Modelsim/Questa are then attempted.
C9_FailureAborts ==
    /\ \A i \in 1..Len(b_log) :
          (~b_log[i].ok /\ b_log[i].lib # "libfli") =>
              /\ i = Len(b_log)
              /\ b_pc = "raised"
    /\ b_pc = "raised" =>
          /\ b_log # <<>>
          /\ ~b_log[Len(b_log)].ok
          /\ b_log[Len(b_log)].lib # "libfli"
    /\ b_pc = "returned" =>
          /\ Enabled(platform, on_path) \subseteq Attempted
          /\ \A i \in 1..Len(b_log) : b_log[i].ok \/ b_log[i].lib = "libfli"

\* C9 witness: a Modelsim/Questa library failed to build after Icarus was
\* built, and GHDL, which this host would build, was never attempted.
C9_Witness ==
    /\ b_pc = "raised"
    /\ "icarus" \in Attempted
    /\ b_log[Len(b_log)].dir = "modelsi"
    /\ ~b_log[Len(b_log)].ok
    /\ "ghdl" \in Enabled(platform, on_path)
    /\ "ghdl" \notin Attempted

\* C10 (as claimed): a backend whose marker executable is not found gets no
\* artifact.
C10_AsClaimed ==
    /\ "iverilog" \notin on_path => Artifacts("icarus") = {}
    /\ "vopt" \notin on_path => Artifacts("modelsi") = {}
    /\ "vsimsa" \notin on_path => Artifacts("aldec") = {}

\* C10 (amended): Aldec on every platform, and Icarus and Modelsim/Questa
\* on Windows, get no artifact and no build attempt when their marker
\* executable is not found, and build() neither raises because of that nor
\* stops: it returns once the remaining backends are built.  Elsewhere
\* Icarus and Modelsim/Questa are built without their marker being looked
\* for, and a missing vopt only leaves the FLI bridge out.
C10_MissingToolchainSkipped ==
    /\ "vsimsa" \notin on_path =>
          Artifacts("aldec") = {} /\ "aldec" \notin Attempted
    /\ (os_name(platform) = "nt" /\ "iverilog" \notin on_path) =>
          Artifacts("icarus") = {} /\ "icarus" \notin Attempted
    /\ (os_name(platform) = "nt" /\ "vopt" \notin on_path) =>
          Artifacts("modelsi") = {} /\ "modelsi" \notin Attempted
    /\ "vopt" \notin on_path =>
          \A e \in Artifacts("modelsi") : e.name.lib # "libfli"
    /\ b_pc = "raised" => (b_log # <<>> /\ ~b_log[Len(b_log)].ok)
    /\ (b_pc = "returned" /\ os_name(platform) = "posix") =>
          /\ Artifacts("icarus") # {}
          /\ Artifacts("modelsi") # {}
          /\ Artifacts("verilator") # {}

\* C10 witness: no marker executable is found on a Linux host; build()
\* returned with Verilator built and nothing for Aldec.
C10_Witness ==
    /\ on_path = {}
    /\ platform = "linux"
    /\ b_pc = "returned"
    /\ Artifacts("aldec") = {}
    /\ Artifacts("verilator") # {}

(***************************************************************************)
(* Properties of _rename_safe.                                             *)
(***************************************************************************)

EntryAt(d, dir, name) == {e \in d : e.dir = dir /\ e.name = name}

TargetWasThere == Exists(r_before, "icarus", r_target)

\* C11 (as claimed): on every platform branch two calls in succession with
\* the same arguments (the target being there at the first) both complete
\* without error and leave the same artifact at link_name.
C11_AsClaimed ==
    (r_pc = "twice" /\ TargetWasThere) =>
        /\ ~r_calls[1].raised
        /\ ~r_calls[2].raised
        /\ EntryAt(r_calls[2].disk, "icarus", r_link)
              = EntryAt(r_calls[1].disk, "icarus", r_link)

\* C11 (amended): on the symlink branch (darwin) and the copy branch
\* (Windows) two calls in succession both complete without error and leave
\* the same artifact at link_name; on the plain-rename branch the first
\* call moves the target away, so the second call raises, and link_name
\* stays as the first call left it.
C11_RenameTwice ==
    (r_pc = "twice" /\ TargetWasThere) =>
        /\ ~r_calls[1].raised
        /\ Exists(r_calls[1].disk, "icarus", r_link)
        /\ r_calls[2].raised <=> (platform \notin {"darwin", "win32"})
        /\ EntryAt(r_calls[2].disk, "icarus", r_link)
              = EntryAt(r_calls[1].disk, "icarus", r_link)
        /\ platform \in {"darwin", "win32"} => r_calls[2].disk = r_calls[1].disk

\* C11 witness: the second of two calls on the plain-rename branch raised
\* after the first had moved the compiler's output to its canonical name.
C11_Witness ==
    /\ r_pc = "twice"
    /\ platform = "linux"
    /\ TargetWasThere
    /\ ~r_calls[1].raised
    /\ r_calls[2].raised
    /\ ~Exists(disk, "icarus", r_target)
    /\ Exists(disk, "icarus", r_link)

(***************************************************************************)
(* Build order within a backend directory.                                 *)
(***************************************************************************)

ProtocolBridges == {"libvpi", "libcocotbvhpi", "libfli"}

\* Position of a library in the stated order: the common chain first, the
\* protocol bridges after it.
Rank(lib) ==
    IF \E k \in 1..Len(common_libs) : common_libs[k] = lib
    THEN CHOOSE k \in 1..Len(common_libs) : common_libs[k] = lib
    ELSE IF lib = "libvpi" THEN Len(common_libs) + 1 ELSE Len(common_libs) + 2

BuiltBefore(i, dir, lib) ==
    \E j \in 1..(i - 1) : b_log[j].dir = dir /\ b_log[j].lib = lib /\ b_log[j].ok

CanonicalName(lib) ==
    FileName(lib, FALSE, ext_name(platform, out_lib(platform, abi_tag, lib)))

\* C12: every library build comes after the successful build, into the same
\* backend directory, of every bridge library it links against; within a
\* directory the order is utils, log, embed, generic bridge, entry point,
\* then the protocol bridges; and a protocol bridge is built only in a
\* directory whose whole common chain was built.
C12_LinkOrder ==
    \A i \in 1..Len(b_log) :
        /\ \A dep \in libraries(b_log[i].lib) :
              /\ BuiltBefore(i, b_log[i].dir, dep)
              /\ Exists(disk, b_log[i].dir, CanonicalName(dep))
        /\ \A j \in 1..(i - 1) :
              b_log[j].dir = b_log[i].dir => Rank(b_log[j].lib) < Rank(b_log[i].lib)
        /\ b_log[i].lib \in ProtocolBridges =>
              \A k \in 1..Len(common_libs) :
                  BuiltBefore(i, b_log[i].dir, common_libs[k])

\* C12 witness: the FLI bridge built on Windows, after the Modelsim chain and
\* its VPI bridge.
C12_Witness ==
    /\ platform = "win32"
    /\ \E i \in 1..Len(b_log) :
          /\ b_log[i].lib = "libfli"
          /\ b_log[i].ok
          /\ BuiltBefore(i, "modelsi", "libvpi")
          /\ BuiltBefore(i, "modelsi", "simulator")

(***************************************************************************)
(* The environment of the commands and the results path.                   *)
(***************************************************************************)

Holds(env, k, v) == k \in DOMAIN env /\ env[k] = v

\* C13 (as claimed): in the environment given to every started command,
\* TOPLEVEL is the configured toplevel, MODULE the configured module,
\* COCOTB_SIM is "1", RANDOM_SEED is the string of the configured seed and
\* TESTCASE the configured testcase (when configured), whatever the process
\* environment holds for those names.
C13_AsClaimed ==
    \A i \in 1..Len(handed) :
        /\ Holds(handed[i], "TOPLEVEL", toplevel)
        /\ Holds(handed[i], "MODULE", module)
        /\ Holds(handed[i], "COCOTB_SIM", "1")
        /\ seed # <<>> => Holds(handed[i], "RANDOM_SEED", str(seed[1]))
        /\ testcase # <<>> => Holds(handed[i], "TESTCASE", testcase[1])

Resolved == pc \in {"execute", "report"} \/ spawned # <<>>

TempPaths == {sim_dir \o sep \o random \o "_results.xml" : random \in TempNames}

\* C14 (as claimed): before any command is started the results path is
\* resolved: it is the value of COCOTB_RESULTS_FILE when the process
\* environment has that name, else a temporary path inside sim_dir; and
\* sim_dir exists when commands start.
C14_AsClaimed ==
    Resolved =>
        /\ sim_dir_exists
        /\ IF "COCOTB_RESULTS_FILE" \in DOMAIN os_environ
           THEN results_xml_file = os_environ["COCOTB_RESULTS_FILE"]
           ELSE results_xml_file \in TempPaths

\* C14 (amended): before any command is started the results path is
\* resolved: it is the value of COCOTB_RESULTS_FILE when the process
\* environment sets that name to a non-empty string; when the name is unset
\* or empty it is a temporary path inside sim_dir; and sim_dir exists when
\* commands start.
C14_ResultsPath ==
    Resolved =>
        /\ sim_dir_exists
        /\ IF /\ "COCOTB_RESULTS_FILE" \in DOMAIN os_environ
              /\ os_environ["COCOTB_RESULTS_FILE"] # ""
           THEN results_xml_file = os_environ["COCOTB_RESULTS_FILE"]
           ELSE results_xml_file \in TempPaths

\* C14 witness: a command was started with COCOTB_RESULTS_FILE set but
\* empty and the results path a temporary one.
C14_Witness ==
    /\ spawned # <<>>
    /\ Holds(os_environ, "COCOTB_RESULTS_FILE", "")
    /\ results_xml_file \in TempPaths
    /\ sim_dir_exists

(***************************************************************************)
(* The command lines.                                                      *)
(***************************************************************************)

\* Where each part of the compile command starts (one before its first word).
DefinesAt == 6

IncludesAt == DefinesAt + 2 * Len(defines)

CompileArgsAt == IncludesAt + 2 * Len(includes)

ExtraArgsAt == CompileArgsAt + Len(compile_args)

SourcesAt == ExtraArgsAt + Len(extra_args)

AsAbsolute(p) == IF p.isabs THEN p.text ELSE "/work/" \o p.text

\* C15: compile_command yields the compiler with the output path, the
\* toplevel and the language standard; then -D and each define in the
\* order given; then -I and each include directory in the order given;
\* then the compile arguments (extra_args after compile_args); then the
\* Verilog sources in the order given, as absolute paths; and nothing else.
C15_CompileCommand ==
    c_pc = "done" =>
        /\ Len(c_compile) = SourcesAt + Len(source_paths)
        /\ SubSeq(c_compile, 1, 6)
              = <<"iverilog", "-o", "/work/sim_build/dut.vvp", "-s", "dut", "-g2012">>
        /\ \A i \in 1..Len(defines) :
              /\ c_compile[DefinesAt + 2 * i - 1] = "-D"
              /\ c_compile[DefinesAt + 2 * i] = defines[i]
        /\ \A i \in 1..Len(includes) :
              /\ c_compile[IncludesAt + 2 * i - 1] = "-I"
              /\ c_compile[IncludesAt + 2 * i] = AsAbsolute(includes[i])
        /\ \A i \in 1..Len(compile_args) :
              c_compile[CompileArgsAt + i] = compile_args[i]
        /\ \A i \in 1..Len(extra_args) :
              c_compile[ExtraArgsAt + i] = extra_args[i]
        /\ \A i \in 1..Len(source_paths) :
              c_compile[SourcesAt + i] = AsAbsolute(source_paths[i])

\* C15 witness: a compile command with two defines, two include
\* directories, arguments of both kinds and two sources.
C15_Witness ==
    /\ c_pc = "done"
    /\ Len(defines) = 2 /\ defines[1] # defines[2]
    /\ Len(includes) = 2 /\ includes[1] # includes[2]
    /\ Len(source_paths) = 2 /\ source_paths[1] # source_paths[2]
    /\ compile_args # <<>>
    /\ extra_args # <<>>
    /\ Len(c_compile) = 18

RunArgsAt == 5

RunExtraAt == RunArgsAt + Len(simulation_args)

ArtifactAt == RunExtraAt + Len(extra_args) + 1

\* C16: run_command yields the runtime with -M and the bridge-library
\* directory and -m and the name of the VPI entry-point library; then the
\* simulation arguments (extra_args after simulation_args); then the path
\* of the compiled artifact, the one compile_command gives after -o; then
\* the plus-args in the order given; and nothing else.
C16_RunCommand ==
    c_pc = "done" =>
        /\ Len(c_run) = ArtifactAt + Len(plus_args)
        /\ SubSeq(c_run, 1, 5)
              = <<"vvp", "-M", "/site/cocotb/libs", "-m", "libcocotbvpi_icarus">>
        /\ \A i \in 1..Len(simulation_args) :
              c_run[RunArgsAt + i] = simulation_args[i]
        /\ \A i \in 1..Len(extra_args) :
              c_run[RunExtraAt + i] = extra_args[i]
        /\ c_run[ArtifactAt] = c_compile[3]
        /\ c_compile[2] = "-o"
        /\ \A i \in 1..Len(plus_args) :
              c_run[ArtifactAt + i] = plus_args[i]

\* C16 witness: a run command with arguments of both kinds and two
\* different plus-args.
C16_Witness ==
    /\ c_pc = "done"
    /\ simulation_args # <<>>
    /\ extra_args # <<>>
    /\ Len(plus_args) = 2 /\ plus_args[1] # plus_args[2]
    /\ Len(c_run) = 10

(***************************************************************************)
(* The Icarus plugin, the names on disk, the order of a run, the FLI       *)
(* bridge.                                                                 *)
(***************************************************************************)

NoArguments == Config(<<>>, <<>>, <<>>, <<>>, <<>>, <<>>, <<>>)

IcarusVpiBuilt ==
    \E i \in 1..Len(b_log) :
        b_log[i].dir = "icarus" /\ b_log[i].lib = "libvpi" /\ b_log[i].ok

\* C17 (as claimed): once build() has returned with the Icarus VPI library
\* built, the directory after -M and the module name after -m in
\* run_command resolve to a file build() left on disk.
C17_AsClaimed ==
    (b_pc = "returned" /\ IcarusVpiBuilt) =>
        LET argv == run_command(NoArguments) IN
            /\ argv[2] = "-M"
            /\ argv[4] = "-m"
            /\ vvp_module_files(argv[3], argv[5]) \cap disk_files(disk) # {}

Canonical(lib) == FileName(lib, FALSE, IF platform = "win32" THEN "dll" ELSE "so")

Vpl == FileName("gpivpi", FALSE, "vpl")

\* No step of build() is left to do in directory dir.
Finished(dir) ==
    \A k \in 1..Len(build_steps(platform, on_path)) :
        (b_pc = "build" /\ k >= b_idx) \/ (b_pc = "raised" /\ k = b_idx) =>
            build_steps(platform, on_path)[k].dir # dir

AlternateNames(dir, lib) ==
    {e \in disk : e.dir = dir /\ e.name.lib = lib /\ e.name # Canonical(lib)}

\* C18 (as claimed): once build() has finished a backend, every library
\* built for it is on disk under its canonical name (the library name and
\* dll on Windows, else the suffix of the compiler's output without ABI
\* tag), and no other name is the only name of an artifact.
C18_AsClaimed ==
    \A i \in 1..Len(b_log) :
        (b_log[i].ok /\ Finished(b_log[i].dir)) =>
            Exists(disk, b_log[i].dir, Canonical(b_log[i].lib))

\* C18 (amended): once build() has finished a backend, every library built
\* for it is on disk under its canonical name, and a name the compiler gave
\* is never the only name of an artifact, except for the Icarus VPI
\* library: build() renames it to gpivpi.vpl, so that where renaming is a
\* plain rename it is on disk under gpivpi.vpl only, and elsewhere under
\* both names.  Where renaming is a plain rename no other name of a library
\* stays on disk; where it is a symlink (darwin) or a copy (Windows) the
\* name the compiler gave stays on disk beside the canonical one.
C18_CanonicalNames ==
    \A i \in 1..Len(b_log) :
        (b_log[i].ok /\ Finished(b_log[i].dir)) =>
            LET dir == b_log[i].dir
                lib == b_log[i].lib
            IN  IF dir = "icarus" /\ lib = "libvpi"
                THEN /\ Exists(disk, dir, Vpl)
                     /\ Exists(disk, dir, Canonical(lib)) <=> platform # "linux"
                     /\ platform = "linux" => AlternateNames(dir, lib) = {}
                ELSE /\ Exists(disk, dir, Canonical(lib))
                     /\ platform = "linux" => AlternateNames(dir, lib) = {}
                     /\ (platform = "win32" \/ (platform = "darwin" /\ abi_tag)) =>
                            AlternateNames(dir, lib) # {}

\* C18 witness: build() has returned on Linux, the compiler tagging its
\* outputs: the Icarus VPI library is on disk as gpivpi.vpl only, the
\* generic bridge under its canonical name only.
C18_Witness ==
    /\ b_pc = "returned"
    /\ platform = "linux"
    /\ abi_tag
    /\ IcarusVpiBuilt
    /\ Exists(disk, "icarus", Vpl)
    /\ ~Exists(disk, "icarus", Canonical("libvpi"))
    /\ Exists(disk, "icarus", Canonical("libgpi"))
    /\ AlternateNames("icarus", "libgpi") = {}

Inspected == outcome \in {"AssertionError: Simulation terminated abnormally",
                          "ParseError", "AssertionError: test failure"}
                \/ results_doc # NoDoc

\* C19: commands are started one at a time, each after the one before it
\* has exited and in the order of the queue; the results document is
\* inspected only when every command of the queue has exited with code 0;
\* and once a command has exited with another code the results document
\* is never inspected.
C19_RunOrder ==
    /\ Len(spawned) = Len(returncodes) + (IF running = "none" THEN 0 ELSE 1)
    /\ running # "none" => (pc = "execute" /\ running = spawned[Len(spawned)])
    /\ \A i \in 1..Len(spawned) : i <= Len(cmds) /\ spawned[i] = cmds[i]
    /\ pc = "report" =>
          /\ running = "none"
          /\ Len(returncodes) = Len(cmds)
          /\ \A i \in 1..Len(returncodes) : returncodes[i] = 0
    /\ Inspected =>
          /\ pc = "done"
          /\ running = "none"
          /\ spawned = cmds
          /\ Len(returncodes) = Len(cmds)
          /\ \A i \in 1..Len(returncodes) : returncodes[i] = 0
    /\ (\E i \in 1..Len(returncodes) : returncodes[i] # 0) =>
          /\ ~Inspected
          /\ results_doc = NoDoc
          /\ failures = <<>>
          /\ pc = "done"
          /\ outcome = "RuntimeError"

\* C19 witness: compile and run were started in that order, both exited
\* with code 0, and the results document was then read.
C19_Witness ==
    /\ pc = "done"
    /\ spawned = <<"compile", "run">>
    /\ returncodes = <<0, 0>>
    /\ results_doc # NoDoc
    /\ outcome = "returned"

FliFailedAt(i) == b_log[i].lib = "libfli" /\ ~b_log[i].ok

\* C20: a failed build of the Modelsim/Questa FLI bridge does not raise out of
\* build(), leaves the common and VPI libraries of Modelsim/Questa on disk,
\* and build() goes on with the backends after Modelsim/Questa.
C20_FliAbsorbed ==
    \A i \in 1..Len(b_log) :
        FliFailedAt(i) =>
            /\ ~(b_pc = "raised" /\ i = Len(b_log))
            /\ b_log[i].dir = "modelsi"
            /\ \A k \in 1..Len(common_libs) :
                  Exists(disk, "modelsi", Canonical(common_libs[k]))
            /\ Exists(disk, "modelsi", Canonical("libvpi"))
            /\ (b_pc = "build" /\ i = Len(b_log)
                  /\ b_idx <= Len(build_steps(platform, on_path))) =>
                  CurrentStep.dir \in After("modelsi")
            /\ b_pc = "returned" =>
                  (After("modelsi") \cap Enabled(platform, on_path)) \subseteq Attempted

\* C20 witness: the FLI bridge failed to build, and build() returned after
\* building GHDL, IUS, VCS and Verilator.
C20_Witness ==
    /\ b_pc = "returned"
    /\ \E i \in 1..Len(b_log) : FliFailedAt(i)
    /\ {"ghdl", "ius", "vcs", "verilator"} \subseteq Attempted
    /\ Exists(disk, "modelsi", Canonical("libvpi"))
    /\ Exists(disk, "verilator", Canonical("libvpi"))

(***************************************************************************)
(* The selector of run().                                                  *)
(***************************************************************************)

\* run() takes the selector: SIM (icarus when unset) is one of the values
\* it lists, or an adapter class is passed.
Accepted ==
    \/ simulator
    \/ SIM \in {"unset", "icarus", "questa", "ius", "vcs", "ghdl", "aldec", "verilator"}

\* C21 (as claimed): once run() is past its entry, an accepted selector has
\* an adapter constructed (its sources being Verilog) and never ends with
\* no adapter bound; a selector that is not accepted ends with
\* NotImplementedError and no command started.
C21_AsClaimed ==
    pc # "entry" =>
        /\ (Accepted /\ ~vhdl_sources) => sim = "Icarus"
        /\ Accepted => outcome # "UnboundLocalError"
        /\ ~Accepted => (outcome = "NotImplementedError" /\ spawned = <<>>)

(***************************************************************************)
(* The environment of the parent process and the caller's overrides.       *)
(***************************************************************************)

\* os.environ when Simulator.run is entered: the constructor has written
\* TESTCASE and RANDOM_SEED to it when it is the dict given as extra_env.
EnvironBeforeRun ==
    IF aliased THEN init_env(extra_env, testcase, seed) ELSE os_environ

Added == {"PYTHONPATH", "PYTHONHOME", "TOPLEVEL", "MODULE", "COCOTB_SIM",
          "COCOTB_RESULTS_FILE"}

\* C22 (as claimed): Simulator.run and _set_env leave os.environ as it was
\* when run was entered, its names and its values, however the run ends.
C22_AsClaimed == sim = "Icarus" => environ_now = EnvironBeforeRun

\* C22 (amended): unless the dict given as extra_env is os.environ itself,
\* Simulator.run and _set_env leave os.environ as it was, its names and its
\* values, however the run ends, and what they add (the PATH suffix,
\* PYTHONPATH, PYTHONHOME, TOPLEVEL, MODULE, COCOTB_SIM,
\* COCOTB_RESULTS_FILE) is in the environment given to the commands only;
\* when extra_env is os.environ, self.env is that object and everything
\* written to self.env is written to os.environ.
C22_ParentEnvUntouched ==
    /\ ~aliased =>
          /\ environ_now = os_environ
          /\ \A i \in 1..Len(handed) :
                /\ Added \subseteq DOMAIN handed[i]
                /\ "PATH" \in DOMAIN handed[i]
                /\ "PATH" \in DOMAIN environ_now =>
                      handed[i]["PATH"] # environ_now["PATH"]
    /\ (aliased /\ sim = "Icarus") => environ_now = self_env

\* C22 witness: a run given its own extra_env ended with a process failure;
\* os.environ is as before and holds none of the names set for the command.
C22_Witness ==
    /\ ~aliased
    /\ extra_env # <<>>
    /\ outcome = "RuntimeError"
    /\ handed # <<>>
    /\ environ_now = os_environ
    /\ "TOPLEVEL" \notin DOMAIN environ_now
    /\ Holds(handed[1], "TOPLEVEL", "dut")

\* C23 (as claimed): the results path Simulator.run checks and parses is the
\* value of COCOTB_RESULTS_FILE in the environment given to every command,
\* whether os.environ leaves that name unset, sets it to a path or sets it
\* to the empty string.
C23_AsClaimed ==
    \A i \in 1..Len(handed) :
        Holds(handed[i], "COCOTB_RESULTS_FILE", results_xml_file)

\* The names the orchestrator sets or extends itself.
OwnKeys == Added \cup {"PATH", "TESTCASE", "RANDOM_SEED"}

\* C24 (as claimed): a name given in extra_env, other than those the
\* orchestrator sets itself, reaches every command with the value given,
\* also when os.environ sets that name to another value.
C24_AsClaimed ==
    (extra_env # <<>> /\ ~aliased) =>
        \A i \in 1..Len(handed) :
            \A k \in DOMAIN extra_env[1] \ OwnKeys :
                Holds(handed[i], k, extra_env[1][k])

(***************************************************************************)
(* Termination of a run.                                                   *)
(***************************************************************************)

Count(q, x) == Cardinality({i \in 1..Len(q) : q[i] = x})

\* At most two commands are started, at most one compile and one run.
AtMostOneEach ==
    /\ Len(spawned) <= 2
    /\ Count(spawned, "compile") <= 1
    /\ Count(spawned, "run") <= 1
    /\ Len(returncodes) <= Len(spawned)

\* The number of steps a run has left at most: none once it has ended, one
\* to report, two for each command still to start, one for a command that
\* is running.
Remaining ==
    CASE pc = "done" -> 0
      [] pc = "report" -> 1
      [] pc = "execute" ->
            2 + 2 * (Len(cmds) - cmd_idx + 1) - (IF running = "none" THEN 0 ELSE 1)
      [] pc = "run" -> 7
      [] pc = "entry" -> 8

\* C25: when every started process exits in the end, a run ends, with its
\* result or with an error: a run that has not ended can always take a
\* step (a running process can exit, the interpreter can go on), every
\* step leaves it fewer steps to take, and it ends with an outcome.  At no
\* time has it started more than two commands, or the compile or the run
\* command more than once.
C25_Terminates ==
    /\ []AtMostOneEach
    /\ [](pc # "done" => ENABLED <<Next>>_vars)
    /\ [](running # "none" => ENABLED <<ExecuteExit>>_vars)
    /\ [](pc = "done" <=> outcome # "none")
    /\ [][Remaining' < Remaining]_vars

\* C25 witness: a run ended with a test failure after one compile and one
\* run command, each started once.
C25_Witness ==
    /\ pc = "done"
    /\ outcome = "AssertionError: test failure"
    /\ spawned = <<"compile", "run">>
    /\ returncodes = <<0, 0>>
    /\ failures # <<>>

====
